---- MODULE Spec2Model ----
(***************************************************************************)
(* A model of followthecode.py: the commit-window selection of main(),     *)
(* the aggregation pass and the rankings of generate_metrics(), and the    *)
(* report writing of save_metrics_to_csv().                                *)
(*                                                                         *)
(* A Python dict is modelled as the sequence of its <<key, value>> pairs   *)
(* in insertion order, which is the order .items() yields and the order    *)
(* the stable sort keeps for entries with equal keys.  Times are seconds   *)
(* since the epoch (committed_date); a datetime is the naive local wall    *)
(* clock reading in seconds; a duration in hours is the exact fraction     *)
(* [num, den].                                                             *)
(***************************************************************************)
EXTENDS Integers, Sequences, FiniteSets

VARIABLES
    tz,                          \* the process's time zone rule (used by fromtimestamp / now)
    now,                         \* the clock, seconds since the epoch
    branchCommits,               \* what repo.iter_commits(branch) lists
    pc,                          \* position of the run
    repo_path,                   \* main: repo_path
    branch_name,                 \* main: branch_name
    dialogs,                     \* message boxes shown so far
    commits_in_range,            \* main: commits_in_range / generate_metrics: commits
    commits_sorted,              \* generate_metrics locals
    pos,                         \* number of commits of commits_sorted processed
    commits_by_author,
    file_stats,
    lines_by_author,
    commits_by_day,
    last_commit_time_by_author,
    time_diffs_by_author,
    file_changes_by_author,
    metrics,                     \* what generate_metrics returned
    reports                      \* the CSV files of the working directory

vars == <<tz, now, branchCommits, pc, repo_path, branch_name, dialogs,
          commits_in_range, commits_sorted, pos, commits_by_author, file_stats,
          lines_by_author, commits_by_day, last_commit_time_by_author,
          time_diffs_by_author, file_changes_by_author, metrics, reports>>

mainVars == <<repo_path, branch_name, dialogs, reports>>
envVars == <<tz, now, branchCommits>>
aggVars == <<commits_sorted, pos, commits_by_author, file_stats, lines_by_author,
             commits_by_day, last_commit_time_by_author, time_diffs_by_author,
             file_changes_by_author>>

---------------------------------------------------------------------------
(* Bounds and input domains *)

MaxCommits == 3

Authors == {"ana", "bea"}

SecondsPerHour == 3600
SecondsPerDay == 24 * SecondsPerHour
WindowDays == 90

\* The instant at which the "dst" zone falls back one hour (a Sunday, 01:00 UTC).
FallBack == 19659 * SecondsPerDay + SecondsPerHour

TimeZones == {"utc", "dst"}

---------------------------------------------------------------------------
(* datetime *)

UtcOffset(zone, t) ==
    IF zone = "dst" /\ t < FallBack THEN SecondsPerHour ELSE 0

\* datetime.datetime.fromtimestamp(t): the naive local time of the instant t
FromTimestamp(zone, t) == t + UtcOffset(zone, t)

DayNames == <<"Monday", "Tuesday", "Wednesday", "Thursday", "Friday", "Saturday", "Sunday">>

\* strftime('%A'); day 0 of the epoch was a Thursday
DayOfWeek(local) == DayNames[(((local \div SecondsPerDay) + 3) % 7) + 1]

\* position of a weekday name in alphabetical (string) order
NameRank(day) ==
    CASE day = "Friday" -> 1
      [] day = "Monday" -> 2
      [] day = "Saturday" -> 3
      [] day = "Sunday" -> 4
      [] day = "Thursday" -> 5
      [] day = "Tuesday" -> 6
      [] day = "Wednesday" -> 7

---------------------------------------------------------------------------
(* dict and list helpers *)

Keys(d) == {d[j][1] : j \in 1..Len(d)}

HasKey(d, k) == \E j \in 1..Len(d) : d[j][1] = k

\* d.get(k, default)
Get(d, k, default) ==
    IF HasKey(d, k) THEN d[CHOOSE j \in 1..Len(d) : d[j][1] = k][2] ELSE default

\* d[k] = v
Put(d, k, v) ==
    IF HasKey(d, k)
    THEN [j \in 1..Len(d) |-> IF d[j][1] = k THEN <<k, v>> ELSE d[j]]
    ELSE Append(d, <<k, v>>)

SumSeq(s) ==
    LET f[k \in 0..Len(s)] == IF k = 0 THEN 0 ELSE f[k - 1] + s[k]
    IN f[Len(s)]

\* sorted(s, key=...) / list.sort(key=...): a stable sort.  leq[i, j] is the
\* order of the keys of s[i] and s[j]: key(s[i]) <= key(s[j]), or >= under
\* reverse=True (which keeps the original order of entries with equal keys).
StableSort(s, leq) ==
    LET ins(acc, x) ==
            LET p == Cardinality({j \in 1..Len(acc) : leq[acc[j], x]})
            IN SubSeq(acc, 1, p) \o <<x>> \o SubSeq(acc, p + 1, Len(acc))
        f[k \in 0..Len(s)] == IF k = 0 THEN <<>> ELSE ins(f[k - 1], k)
        order == f[Len(s)]
    IN [j \in 1..Len(s) |-> s[order[j]]]

RECURSIVE Gcd(_, _)
Gcd(a, b) == IF b = 0 THEN a ELSE Gcd(b, a % b)

\* x <= y for fractions with positive denominators
FracLeq(x, y) ==
    LET g == Gcd(x.den, y.den)
    IN x.num * (y.den \div g) <= y.num * (x.den \div g)

---------------------------------------------------------------------------
(* generate_metrics *)

\* commits_sorted = sorted(commits, key=lambda c: c.committed_date)
SortByDate(commits) ==
    StableSort(commits,
        [a, b \in 1..Len(commits) |-> commits[a].committed_date <= commits[b].committed_date])

\* FileStep with the (file, author) total assigned instead of accumulated
FileStep_assign(acc, author, fs) ==
    LET total_changes == fs.insertions + fs.deletions
        old == Get(acc.file_stats, fs.file, [insertions |-> 0, deletions |-> 0, authors |-> {}])
        oldL == Get(acc.lines_by_author, author, [insertions |-> 0, deletions |-> 0])
        oldF == Get(acc.file_changes_by_author, fs.file, <<>>)
    IN [file_stats |->
            Put(acc.file_stats, fs.file,
                [insertions |-> old.insertions + fs.insertions,
                 deletions |-> old.deletions + fs.deletions,
                 authors |-> old.authors \cup {author}]),
        lines_by_author |->
            Put(acc.lines_by_author, author,
                [insertions |-> oldL.insertions + fs.insertions,
                 deletions |-> oldL.deletions + fs.deletions]),
        file_changes_by_author |->
            Put(acc.file_changes_by_author, fs.file, Put(oldF, author, total_changes))]

\* one pass of the loop over stats.files.items()
FileStep(acc, author, fs) ==
    LET total_changes == fs.insertions + fs.deletions
        old == Get(acc.file_stats, fs.file, [insertions |-> 0, deletions |-> 0, authors |-> {}])
        oldL == Get(acc.lines_by_author, author, [insertions |-> 0, deletions |-> 0])
        oldF == Get(acc.file_changes_by_author, fs.file, <<>>)
    IN [file_stats |->
            Put(acc.file_stats, fs.file,
                [insertions |-> old.insertions + fs.insertions,
                 deletions |-> old.deletions + fs.deletions,
                 authors |-> old.authors \cup {author}]),
        lines_by_author |->
            Put(acc.lines_by_author, author,
                [insertions |-> oldL.insertions + fs.insertions,
                 deletions |-> oldL.deletions + fs.deletions]),
        file_changes_by_author |->
            Put(acc.file_changes_by_author, fs.file,
                Put(oldF, author, Get(oldF, author, 0) + total_changes))]

FilesLoop(acc, author, files) ==
    LET f[k \in 0..Len(files)] ==
            IF k = 0 THEN acc ELSE FileStep(f[k - 1], author, files[k])
    IN f[Len(files)]

\* the interval list of the author after one more commit of theirs
NextDiffs(diffs, last, author, commit_date) ==
    LET d1 == IF HasKey(diffs, author) THEN diffs ELSE Put(diffs, author, <<>>)
    IN IF HasKey(last, author)
       THEN Put(d1, author,
                Append(Get(d1, author, <<>>),
                       [num |-> commit_date - Get(last, author, 0), den |-> SecondsPerHour]))
       ELSE d1

\* CountCommit with the previous count dropped
CountCommit_restart(cba, author) == Put(cba, author, 1)

\* commits_by_author[author] = commits_by_author.get(author, 0) + 1
CountCommit(cba, author) == Put(cba, author, Get(cba, author, 0) + 1)

\* the dictionaries of the pass, before the first commit
EmptyTables ==
    [commits_by_author |-> <<>>,
     file_stats |-> <<>>,
     lines_by_author |-> <<>>,
     commits_by_day |-> <<>>,
     last_commit_time_by_author |-> <<>>,
     time_diffs_by_author |-> <<>>,
     file_changes_by_author |-> <<>>]

\* the body of "for commit in commits_sorted", on the dictionaries t
CommitStep(zone, t, commit) ==
    LET commit_date == FromTimestamp(zone, commit.committed_date)
        day_of_week == DayOfWeek(commit_date)
        author == commit.author
        acc == FilesLoop([file_stats |-> t.file_stats,
                          lines_by_author |-> t.lines_by_author,
                          file_changes_by_author |-> t.file_changes_by_author],
                         author, commit.files)
    IN [commits_by_author |-> CountCommit(t.commits_by_author, author),
        file_stats |-> acc.file_stats,
        lines_by_author |-> acc.lines_by_author,
        commits_by_day |-> Put(t.commits_by_day, day_of_week, Get(t.commits_by_day, day_of_week, 0) + 1),
        last_commit_time_by_author |-> Put(t.last_commit_time_by_author, author, commit_date),
        time_diffs_by_author |->
            NextDiffs(t.time_diffs_by_author, t.last_commit_time_by_author, author, commit_date),
        file_changes_by_author |-> acc.file_changes_by_author]

\* the dictionaries of the running call
Tables ==
    [commits_by_author |-> commits_by_author,
     file_stats |-> file_stats,
     lines_by_author |-> lines_by_author,
     commits_by_day |-> commits_by_day,
     last_commit_time_by_author |-> last_commit_time_by_author,
     time_diffs_by_author |-> time_diffs_by_author,
     file_changes_by_author |-> file_changes_by_author]

SetTables(t) ==
    /\ commits_by_author' = t.commits_by_author
    /\ file_stats' = t.file_stats
    /\ lines_by_author' = t.lines_by_author
    /\ commits_by_day' = t.commits_by_day
    /\ last_commit_time_by_author' = t.last_commit_time_by_author
    /\ time_diffs_by_author' = t.time_diffs_by_author
    /\ file_changes_by_author' = t.file_changes_by_author

\* the sort of the input and the empty dictionaries
GenStart ==
    /\ pc = "generate"
    /\ commits_sorted' = SortByDate(commits_in_range)
    /\ pos' = 0
    /\ SetTables(EmptyTables)
    /\ pc' = "gen_loop"
    /\ UNCHANGED <<envVars, mainVars, commits_in_range, metrics>>

\* one iteration of the loop over commits_sorted
GenLoop ==
    /\ pc = "gen_loop"
    /\ pos < Len(commits_sorted)
    /\ SetTables(CommitStep(tz, Tables, commits_sorted[pos + 1]))
    /\ pos' = pos + 1
    /\ UNCHANGED <<envVars, mainVars, commits_in_range, commits_sorted, metrics, pc>>

\* AuthorsWithMostCommits without reverse=True
AuthorsWithMostCommits_ascending(cba) ==
    StableSort(cba, [a, b \in 1..Len(cba) |-> cba[a][2] <= cba[b][2]])

\* 1) sorted(commits_by_author.items(), key=lambda x: x[1], reverse=True)
AuthorsWithMostCommits(cba) ==
    StableSort(cba, [a, b \in 1..Len(cba) |-> cba[a][2] >= cba[b][2]])

\* 2) (f, insertions, deletions, total_changes), by total_changes descending
FilesModifiedList(fst) ==
    LET rows == [j \in 1..Len(fst) |->
                    <<fst[j][1], fst[j][2].insertions, fst[j][2].deletions,
                      fst[j][2].insertions + fst[j][2].deletions>>]
    IN StableSort(rows, [a, b \in 1..Len(rows) |-> rows[a][4] >= rows[b][4]])

\* 3) (f, n_authors), by n_authors descending
FilesByAuthorsCount(fst) ==
    LET rows == [j \in 1..Len(fst) |-> <<fst[j][1], Cardinality(fst[j][2].authors)>>]
    IN StableSort(rows, [a, b \in 1..Len(rows) |-> rows[a][2] >= rows[b][2]])

\* 4) (author, insertions, deletions, churn), by churn descending
LinesAuthorList(lba) ==
    LET rows == [j \in 1..Len(lba) |->
                    <<lba[j][1], lba[j][2].insertions, lba[j][2].deletions,
                      lba[j][2].insertions + lba[j][2].deletions>>]
    IN StableSort(rows, [a, b \in 1..Len(rows) |-> rows[a][4] >= rows[b][4]])

\* 5) sorted(commits_by_day.items(), key=lambda x: x[0])
CommitsByDayList(cbd) ==
    StableSort(cbd, [a, b \in 1..Len(cbd) |-> NameRank(cbd[a][1]) <= NameRank(cbd[b][1])])

\* avg_time of one author: sum(diffs) / len(diffs), or 0.0 when there is no interval
AvgTime(diffs) ==
    IF Len(diffs) > 0
    THEN [num |-> SumSeq([j \in 1..Len(diffs) |-> diffs[j].num]),
          den |-> SecondsPerHour * Len(diffs)]
    ELSE [num |-> 0, den |-> 1]

\* 6) (author, avg_time), by avg_time ascending
AverageTimeByAuthor(tda) ==
    LET rows == [j \in 1..Len(tda) |-> <<tda[j][1], AvgTime(tda[j][2])>>]
    IN StableSort(rows, [a, b \in 1..Len(rows) |-> FracLeq(rows[a][2], rows[b][2])])

\* the (f, auth, lines_changed) triples in the order of the two nested loops
FlattenFileChanges(fcba) ==
    LET f[k \in 0..Len(fcba)] ==
            IF k = 0 THEN <<>>
            ELSE f[k - 1] \o [j \in 1..Len(fcba[k][2]) |->
                                <<fcba[k][1], fcba[k][2][j][1], fcba[k][2][j][2]>>]
    IN f[Len(fcba)]

\* 7) (file, author, lines_changed), by lines_changed descending
FilesMostChangedByAuthors(fcba) ==
    LET rows == FlattenFileChanges(fcba)
    IN StableSort(rows, [a, b \in 1..Len(rows) |-> rows[a][3] >= rows[b][3]])

NoMetrics ==
    [commits_by_author |-> <<>>,
     authors_with_most_commits |-> <<>>,
     files_modified_list |-> <<>>,
     files_by_authors_count |-> <<>>,
     lines_author_list |-> <<>>,
     commits_by_day_list |-> <<>>,
     average_time_by_author |-> <<>>,
     files_most_changed_by_authors |-> <<>>]

\* the dictionary generate_metrics returns, from the dictionaries of the pass
MetricsOf(t) ==
    [commits_by_author |-> t.commits_by_author,
     authors_with_most_commits |-> AuthorsWithMostCommits(t.commits_by_author),
     files_modified_list |-> FilesModifiedList(t.file_stats),
     files_by_authors_count |-> FilesByAuthorsCount(t.file_stats),
     lines_author_list |-> LinesAuthorList(t.lines_by_author),
     commits_by_day_list |-> CommitsByDayList(t.commits_by_day),
     average_time_by_author |-> AverageTimeByAuthor(t.time_diffs_by_author),
     files_most_changed_by_authors |-> FilesMostChangedByAuthors(t.file_changes_by_author)]

\* the rankings and the return
GenReturn ==
    /\ pc = "gen_loop"
    /\ pos = Len(commits_sorted)
    /\ metrics' = MetricsOf(Tables)
    /\ pc' = "save"
    /\ UNCHANGED <<envVars, mainVars, commits_in_range, aggVars>>

\* generate_metrics as a function of its argument (and the time zone)
GenerateMetrics(zone, commits) ==
    LET s == SortByDate(commits)
        f[k \in 0..Len(s)] == IF k = 0 THEN EmptyTables ELSE CommitStep(zone, f[k - 1], s[k])
    IN MetricsOf(f[Len(s)])

---------------------------------------------------------------------------
(* the commit windows *)

\* get_commits_in_last_3_months: the listed commits not older than 90 days
\* before datetime.now(), in listing order
GetCommitsInLast3Months(zone, clock, commits) ==
    LET three_months_ago == FromTimestamp(zone, clock) - WindowDays * SecondsPerDay
    IN SelectSeq(commits, LAMBDA c : FromTimestamp(zone, c.committed_date) >= three_months_ago)

\* get_commits_from_last_commit: the listed commits within the 90 days that
\* end at the date of the first commit of the listing
GetCommitsFromLastCommit(zone, commits) ==
    IF commits = <<>> THEN <<>>
    ELSE LET last_commit_date == FromTimestamp(zone, commits[1].committed_date)
             three_months_before_last == last_commit_date - WindowDays * SecondsPerDay
         IN SelectSeq(commits,
                LAMBDA c : /\ three_months_before_last <= FromTimestamp(zone, c.committed_date)
                           /\ FromTimestamp(zone, c.committed_date) <= last_commit_date)

---------------------------------------------------------------------------
(* save_metrics_to_csv *)

ReportFiles ==
    <<"commits_by_author.csv", "authors_with_most_commits.csv", "most_modified_files.csv",
      "files_with_most_authors.csv", "lines_by_author.csv", "commits_by_day.csv",
      "average_time_between_commits.csv", "files_most_changed_by_authors.csv">>

\* the index of the report the next with-block opens
NextReport(r) == Cardinality({k \in 1..Len(ReportFiles) : r[k] # "untouched"}) + 1

\* one with-block: open(name, 'w') and the rows.  open may raise (the file is
\* left as it was); a write may raise after open truncated the file.
SaveReport ==
    /\ pc = "save"
    /\ LET k == NextReport(reports)
       IN \/ /\ reports' = [reports EXCEPT ![k] = "written"]
             /\ pc' = IF k = Len(ReportFiles) THEN "success" ELSE "save"
          \/ /\ reports' = reports
             /\ pc' = "crashed"
          \/ /\ reports' = [reports EXCEPT ![k] = "partial"]
             /\ pc' = "crashed"
    /\ UNCHANGED <<envVars, repo_path, branch_name, dialogs, commits_in_range, aggVars, metrics>>

---------------------------------------------------------------------------
(* main *)

Dialog(kind, title, detail) == [kind |-> kind, title |-> title, detail |-> detail]

\* 1. select_repository(): askdirectory returns '' (cancelled) or a directory
SelectRepository ==
    /\ pc = "select"
    /\ \E choice \in {"", "plain_dir", "git_dir", "broken_git_dir"} :
          /\ repo_path' = choice
          /\ IF choice = ""
             THEN /\ dialogs' = Append(dialogs, Dialog("info", "Cancelado", <<>>))
                  /\ pc' = "done"
             ELSE /\ dialogs' = dialogs
                  /\ pc' = "check_git"
    /\ UNCHANGED <<envVars, branch_name, commits_in_range, aggVars, metrics, reports>>

\* 2. os.path.isdir(os.path.join(repo_path, '.git'))
CheckGitDir ==
    /\ pc = "check_git"
    /\ IF repo_path = "plain_dir"
       THEN /\ dialogs' = Append(dialogs, Dialog("error", "Erro", <<"not a repository">>))
            /\ pc' = "done"
       ELSE /\ dialogs' = dialogs
            /\ pc' = "open"
    /\ UNCHANGED <<envVars, repo_path, branch_name, commits_in_range, aggVars, metrics, reports>>

\* 3. Repo(repo_path) inside try/except Exception
OpenRepo ==
    /\ pc = "open"
    /\ IF repo_path = "broken_git_dir"
       THEN /\ dialogs' = Append(dialogs, Dialog("error", "Erro", <<"cannot open">>))
            /\ pc' = "done"
       ELSE /\ dialogs' = dialogs
            /\ pc' = "branch"
    /\ UNCHANGED <<envVars, repo_path, branch_name, commits_in_range, aggVars, metrics, reports>>

\* get_active_branch: 'master', else 'main', else repo.active_branch.name,
\* which raises when HEAD is detached
GetActiveBranch(branches, head) ==
    IF "master" \in branches THEN "master"
    ELSE IF "main" \in branches THEN "main"
    ELSE IF head \in branches THEN head
    ELSE "raise"

BranchNames == {"master", "main", "dev"}

\* 4. branch_name = get_active_branch(repo), outside any try
ResolveBranch ==
    /\ pc = "branch"
    /\ \E branches \in SUBSET BranchNames, head \in BranchNames \cup {"detached"} :
          /\ branches # {}
          /\ LET b == GetActiveBranch(branches, head)
             IN IF b = "raise"
                THEN /\ branch_name' = branch_name
                     /\ pc' = "crashed"
                ELSE /\ branch_name' = b
                     /\ pc' = "window_a"
    /\ UNCHANGED <<envVars, repo_path, dialogs, commits_in_range, aggVars, metrics, reports>>

\* WindowA falling through to the whole history, without the second window
WindowA_skipSecond ==
    /\ pc = "window_a"
    /\ commits_in_range' = GetCommitsInLast3Months(tz, now, branchCommits)
    /\ pc' = IF commits_in_range' = <<>> THEN "window_c" ELSE "check_empty"
    /\ UNCHANGED <<envVars, mainVars, aggVars, metrics>>

\* commits_in_range = get_commits_in_last_3_months(repo, branch_name)
WindowA ==
    /\ pc = "window_a"
    /\ commits_in_range' = GetCommitsInLast3Months(tz, now, branchCommits)
    /\ pc' = IF commits_in_range' = <<>> THEN "window_b" ELSE "check_empty"
    /\ UNCHANGED <<envVars, mainVars, aggVars, metrics>>

\* commits_in_range = get_commits_from_last_commit(repo, branch_name)
WindowB ==
    /\ pc = "window_b"
    /\ commits_in_range' = GetCommitsFromLastCommit(tz, branchCommits)
    /\ pc' = IF commits_in_range' = <<>> THEN "window_c" ELSE "check_empty"
    /\ UNCHANGED <<envVars, mainVars, aggVars, metrics>>

\* commits_in_range = list(repo.iter_commits(branch_name))
WindowC ==
    /\ pc = "window_c"
    /\ commits_in_range' = branchCommits
    /\ pc' = "check_empty"
    /\ UNCHANGED <<envVars, mainVars, aggVars, metrics>>

\* if not commits_in_range: showinfo; return -- else go on to generate_metrics
CheckEmpty ==
    /\ pc = "check_empty"
    /\ IF commits_in_range = <<>>
       THEN /\ dialogs' = Append(dialogs, Dialog("info", "Informacao", <<branch_name>>))
            /\ pc' = "done"
       ELSE /\ dialogs' = dialogs
            /\ pc' = "generate"
    /\ UNCHANGED <<envVars, repo_path, branch_name, commits_in_range, aggVars, metrics, reports>>

\* 7. the success message, with len(commits_in_range)
ShowSuccess ==
    /\ pc = "success"
    /\ dialogs' = Append(dialogs, Dialog("info", "Sucesso", <<Len(commits_in_range), branch_name>>))
    /\ pc' = "done"
    /\ UNCHANGED <<envVars, repo_path, branch_name, commits_in_range, aggVars, metrics, reports>>

---------------------------------------------------------------------------
(* inputs *)

Files == {"f", "g"}

FileStat(f, i, d) == [file |-> f, insertions |-> i, deletions |-> d]

\* stats.files of a commit, in the order the backend lists the files
StatsChoices ==
    {<<>>, <<FileStat("f", 1, 0)>>, <<FileStat("g", 0, 2), FileStat("f", 1, 1)>>}

\* commit instants around the fall-back hour and two days later
MetricsTimes == {FallBack - 600, FallBack + 1200, FallBack + 2 * SecondsPerDay}

MetricsPool == [author : Authors, committed_date : MetricsTimes, files : StatsChoices]

\* commit instants 200 days, 95 days before and 20 minutes after the fall-back hour
MainTimes == {FallBack - 200 * SecondsPerDay, FallBack - 95 * SecondsPerDay, FallBack + 1200}

MainPool == [author : Authors, committed_date : MainTimes, files : {<<>>}]

\* the clock of the run: a day, or 100 days, after the fall-back hour
Clocks == {FallBack + SecondsPerDay, FallBack + 100 * SecondsPerDay}

ListsOf(pool, n) == UNION {[1..k -> pool] : k \in 0..n}

InitLocals ==
    /\ commits_sorted = <<>>
    /\ pos = 0
    /\ commits_by_author = <<>>
    /\ file_stats = <<>>
    /\ lines_by_author = <<>>
    /\ commits_by_day = <<>>
    /\ last_commit_time_by_author = <<>>
    /\ time_diffs_by_author = <<>>
    /\ file_changes_by_author = <<>>
    /\ metrics = NoMetrics
    /\ dialogs = <<>>
    /\ reports = [k \in 1..Len(ReportFiles) |-> "untouched"]

\* a run of main() on some repository, at some time, in some time zone
Init ==
    /\ tz \in TimeZones
    /\ now \in Clocks
    /\ branchCommits \in ListsOf(MainPool, MaxCommits)
    /\ pc = "select"
    /\ repo_path = ""
    /\ branch_name = ""
    /\ commits_in_range = <<>>
    /\ InitLocals

Next ==
    \/ SelectRepository
    \/ CheckGitDir
    \/ OpenRepo
    \/ ResolveBranch
    \/ WindowA
    \/ WindowB
    \/ WindowC
    \/ CheckEmpty
    \/ GenStart
    \/ GenLoop
    \/ GenReturn
    \/ SaveReport
    \/ ShowSuccess

Spec == Init /\ [][Next]_vars

\* a call of generate_metrics(repo, commits) on any list of commits
InitMetrics ==
    /\ tz \in TimeZones
    /\ now = FallBack + 3 * SecondsPerDay
    /\ branchCommits = <<>>
    /\ pc = "generate"
    /\ repo_path = "git_dir"
    /\ branch_name = "master"
    /\ commits_in_range \in ListsOf(MetricsPool, MaxCommits)
    /\ InitLocals

NextMetrics ==
    \/ GenStart
    \/ GenLoop
    \/ GenReturn

SpecMetrics == InitMetrics /\ [][NextMetrics]_vars

---------------------------------------------------------------------------
(* properties *)

Values(d) == [j \in 1..Len(d) |-> d[j][2]]

SumOver(s, F(_)) == SumSeq([j \in 1..Len(s) |-> F(s[j])])

Terminal == pc \in {"done", "crashed"}

Succeeded == \E j \in 1..Len(dialogs) : dialogs[j].title = "Sucesso"

AllUntouched == \A k \in 1..Len(ReportFiles) : reports[k] = "untouched"

AllWritten == \A k \in 1..Len(ReportFiles) : reports[k] = "written"

\* C1: the per-author commit counts sum to the number of commits processed so
\* far at every point of the pass, to the size of the commit set once
\* generate_metrics has returned, and to the number the success message reports.
C1_CountsSumToCommits ==
    /\ pc = "gen_loop" => SumSeq(Values(commits_by_author)) = pos
    /\ (pc \in {"save", "success"} \/ metrics # NoMetrics) =>
          SumSeq(Values(metrics.commits_by_author)) = Len(commits_in_range)
    /\ \A j \in 1..Len(dialogs) :
          dialogs[j].title = "Sucesso" =>
             dialogs[j].detail[1] = SumSeq(Values(metrics.commits_by_author))

C1_Witness ==
    /\ pc = "done"
    /\ Succeeded
    /\ Len(commits_in_range) = MaxCommits
    /\ Len(metrics.commits_by_author) = 2

\* the lines of `field` the commits of `author` in `prefix` record for file f
LinesBy(prefix, f, author, field) ==
    SumOver(prefix,
        LAMBDA c : IF c.author = author
                   THEN SumOver(c.files, LAMBDA fs : IF fs.file = f THEN fs[field] ELSE 0)
                   ELSE 0)

SumOverSet(S, prefix, f, field) ==
    LET RECURSIVE go(_)
        go(T) == IF T = {} THEN 0
                 ELSE LET a == CHOOSE x \in T : TRUE
                      IN LinesBy(prefix, f, a, field) + go(T \ {a})
    IN go(S)

\* C2: during and after the pass, for every file: the insertions of its
\* contributing authors sum to the file's insertions, the lines_changed of its
\* (file, author) entries sum to its insertions + deletions, and the authors
\* with such an entry are exactly the file's author set; the returned
\* (file, author) ranking sums per file to the file's total in the file ranking.
C2_FileTotalsMatchAuthors ==
    pc \in {"gen_loop", "save"} =>
        /\ Keys(file_changes_by_author) = Keys(file_stats)
        /\ \A j \in 1..Len(file_stats) :
              LET f == file_stats[j][1]
                  st == file_stats[j][2]
                  per == Get(file_changes_by_author, f, <<>>)
                  prefix == SubSeq(commits_sorted, 1, pos)
              IN /\ SumOverSet(st.authors, prefix, f, "insertions") = st.insertions
                 /\ SumSeq(Values(per)) = st.insertions + st.deletions
                 /\ Keys(per) = st.authors
                 /\ Len(per) = Cardinality(st.authors)
        /\ pc = "save" =>
              \A j \in 1..Len(metrics.files_modified_list) :
                 LET row == metrics.files_modified_list[j]
                 IN SumOver(metrics.files_most_changed_by_authors,
                            LAMBDA e : IF e[1] = row[1] THEN e[3] ELSE 0) = row[4]

C2_Witness ==
    /\ pc = "save"
    /\ \E j \in 1..Len(file_stats) :
          /\ Cardinality(file_stats[j][2].authors) = 2
          /\ \E k \in 1..Len(file_changes_by_author[j][2]) :
                file_changes_by_author[j][2][k][2] > 2

\* C3: an author with fewer than two commits in the set is never reported
\* with an average interval of zero.
C3_NoZeroForSingleCommit ==
    pc = "save" =>
        \A j \in 1..Len(metrics.average_time_by_author) :
            LET e == metrics.average_time_by_author[j]
            IN Get(metrics.commits_by_author, e[1], 0) < 2 => e[2].num # 0

Orderings(s) ==
    {[j \in 1..Len(s) |-> s[p[j]]] :
        p \in {q \in [1..Len(s) -> 1..Len(s)] : \A x, y \in 1..Len(s) : q[x] = q[y] => x = y}}

\* C4: the output of generate_metrics is the same for every order in which
\* the commits of the set are listed.
C4_OrderIndependent ==
    pc = "save" =>
        \A other \in Orderings(commits_in_range) : GenerateMetrics(tz, other) = metrics

\* the listed commits whose local date is at most 90 days before the local now
WindowOne ==
    SelectSeq(branchCommits,
        LAMBDA c : FromTimestamp(tz, now) - FromTimestamp(tz, c.committed_date)
                      <= WindowDays * SecondsPerDay)

WindowTwo == GetCommitsFromLastCommit(tz, branchCommits)

WindowChosen ==
    \/ pc \in {"check_empty", "generate", "gen_loop", "save", "success"}
    \/ Terminal /\ branch_name # ""

C6_AllOrNothing ==
    Terminal => AllUntouched \/ AllWritten

\* C7: a run that ends has shown exactly one dialog, and a run that ends
\* without the success message has generated no metrics and touched no report.
C7_EveryEndShowsOneDialog ==
    Terminal =>
        /\ Len(dialogs) = 1
        /\ ~Succeeded => metrics = NoMetrics /\ AllUntouched

IsOrdered(r, Leq(_, _)) == \A j \in 1..(Len(r) - 1) : Leq(r[j], r[j + 1])

\* r lists each key of the dict d once, with the value Val(key, value) of the dict
ListsTable(r, d, Val(_, _)) ==
    /\ Len(r) = Len(d)
    /\ \A j \in 1..Len(d) :
          Cardinality({k \in 1..Len(r) : r[k][1] = d[j][1]}) = 1
    /\ \A k \in 1..Len(r) :
          HasKey(d, r[k][1]) /\ r[k] = Val(r[k][1], Get(d, r[k][1], <<>>))

\* C8: each returned ranking lists every key of its table exactly once with
\* the table's values, in the stated order: commit count descending, total
\* line changes descending, author count descending, churn descending, mean
\* interval ascending, weekday name ascending, lines changed descending.
C8_RankingsSortedPermutations ==
    pc = "save" =>
        /\ ListsTable(metrics.authors_with_most_commits, commits_by_author,
                      LAMBDA k, v : <<k, v>>)
        /\ IsOrdered(metrics.authors_with_most_commits, LAMBDA a, b : a[2] >= b[2])
        /\ ListsTable(metrics.files_modified_list, file_stats,
                      LAMBDA k, v : <<k, v.insertions, v.deletions, v.insertions + v.deletions>>)
        /\ IsOrdered(metrics.files_modified_list, LAMBDA a, b : a[4] >= b[4])
        /\ ListsTable(metrics.files_by_authors_count, file_stats,
                      LAMBDA k, v : <<k, Cardinality(v.authors)>>)
        /\ IsOrdered(metrics.files_by_authors_count, LAMBDA a, b : a[2] >= b[2])
        /\ ListsTable(metrics.lines_author_list, lines_by_author,
                      LAMBDA k, v : <<k, v.insertions, v.deletions, v.insertions + v.deletions>>)
        /\ IsOrdered(metrics.lines_author_list, LAMBDA a, b : a[4] >= b[4])
        /\ ListsTable(metrics.average_time_by_author, time_diffs_by_author,
                      LAMBDA k, v : <<k, AvgTime(v)>>)
        /\ IsOrdered(metrics.average_time_by_author, LAMBDA a, b : FracLeq(a[2], b[2]))
        /\ ListsTable(metrics.commits_by_day_list, commits_by_day, LAMBDA k, v : <<k, v>>)
        /\ IsOrdered(metrics.commits_by_day_list, LAMBDA a, b : NameRank(a[1]) < NameRank(b[1]))
        /\ LET r == metrics.files_most_changed_by_authors
           IN /\ Len(r) = SumOver(file_changes_by_author, LAMBDA e : Len(e[2]))
              /\ \A j \in 1..Len(file_changes_by_author) :
                    \A i \in 1..Len(file_changes_by_author[j][2]) :
                       Cardinality({k \in 1..Len(r) :
                           r[k] = <<file_changes_by_author[j][1],
                                    file_changes_by_author[j][2][i][1],
                                    file_changes_by_author[j][2][i][2]>>}) = 1
              /\ IsOrdered(r, LAMBDA a, b : a[3] >= b[3])

C8_Witness ==
    /\ pc = "save"
    /\ Len(metrics.authors_with_most_commits) = 2
    /\ metrics.authors_with_most_commits[1][2] > metrics.authors_with_most_commits[2][2]
    /\ metrics.commits_by_author[1][2] < metrics.commits_by_author[2][2]
    /\ Len(metrics.files_most_changed_by_authors) >= 3
    /\ Len(metrics.commits_by_day_list) = 2
    /\ metrics.average_time_by_author[1][2].num < metrics.average_time_by_author[2][2].num

DatesOf(author) ==
    {commits_in_range[j].committed_date :
        j \in {k \in 1..Len(commits_in_range) : commits_in_range[k].author = author}}

Earliest(S) == CHOOSE x \in S : \A y \in S : x <= y

Latest(S) == CHOOSE x \in S : \A y \in S : x >= y

\* C9: for every author with n commits in the set the interval list has n - 1
\* entries, none negative, and for n >= 2 the reported mean is (timestamp of
\* the author's last commit - timestamp of the first) / (n - 1) in hours.
C9_IntervalsAreElapsedTime ==
    pc = "save" =>
        \A j \in 1..Len(commits_by_author) :
            LET author == commits_by_author[j][1]
                n == commits_by_author[j][2]
                diffs == Get(time_diffs_by_author, author, <<>>)
            IN /\ Len(diffs) = n - 1
               /\ \A k \in 1..Len(diffs) : diffs[k].num >= 0
               /\ n >= 2 =>
                     \E k \in 1..Len(metrics.average_time_by_author) :
                        metrics.average_time_by_author[k] =
                           <<author,
                             [num |-> Latest(DatesOf(author)) - Earliest(DatesOf(author)),
                              den |-> SecondsPerHour * (n - 1)]>>

\* the listed commits whose timestamp lies in the 90 days ending at the
\* greatest timestamp of the listing
WindowOfMostRecent(commits) ==
    LET T == Latest({commits[j].committed_date : j \in 1..Len(commits)})
    IN SelectSeq(commits,
           LAMBDA c : /\ T - WindowDays * SecondsPerDay <= c.committed_date
                      /\ c.committed_date <= T)

\* C10: what get_commits_from_last_commit returns is exactly the commits in
\* the 90 days ending at the most recent commit of the branch.
C10_WindowEndsAtMostRecent ==
    (pc \in {"window_c", "check_empty"} /\ WindowOne = <<>> /\ branchCommits # <<>>) =>
        commits_in_range = WindowOfMostRecent(branchCommits)

====
